---------------------------- MODULE Spec2Model ----------------------------
(***************************************************************************)
(* Model of src/app.ts: the GET /:formId/filteredResponses handler of the  *)
(* Fillout filtering proxy.  One request is followed from its arrival,     *)
(* through validation, the single awaited upstream call, the in-memory     *)
(* filter and paginateData, to the response(s) written on `res`.           *)
(*                                                                         *)
(* JavaScript values are modelled with their type: a JSON number k is      *)
(* Num(k), a JSON string x is Str(x); the result of a numeric coercion is  *)
(* either Fin(k) or NaN (both of typeof "number").                         *)
(***************************************************************************)
EXTENDS Integers, Sequences, FiniteSets, TLC

VARIABLES
    pc,             \* position of the handler: idle, awaiting, rejected, done
    req,            \* the request: headers.authorization, params.formId, body, query
    upstream,       \* what axios.get produced for this request
    upstreamCalls,  \* number of axios.get calls issued
    filterRan,      \* submissions.filter(...) was entered
    filtered,       \* filteredSubmissions
    res,            \* the Response object: statusCode, headersSent, what went on the wire
    escaped,        \* an error left the async handler (its promise rejected)
    unhandled       \* the rejection was left unhandled by the framework

vars == <<pc, req, upstream, upstreamCalls, filterRan, filtered, res, escaped, unhandled>>

-----------------------------------------------------------------------------
(* Bounds of the model *)

MaxSubs == 2        \* submissions in one upstream reply
MaxClauses == 2     \* filter clauses in one request body

(* Program constants *)

DefaultLimit == 150
DefaultOffset == 0

-----------------------------------------------------------------------------
(* JavaScript values *)

Num(k) == [t |-> "number", n |-> k, s |-> ""]
Str(x) == [t |-> "string", n |-> 0, s |-> x]

NaN == [nan |-> TRUE, v |-> 0]
Fin(k) == [nan |-> FALSE, v |-> k]

Absent == "<undefined>"

\* typeof of a coerced operand: Number(...) and Date.prototype.getTime()
\* always produce a number, NaN included.
TypeOf(c) == IF c.nan THEN "number" ELSE "number"

\* Number(value) on the strings of the model: a decimal numeral converts,
\* anything else is NaN.
ToNumber(x) ==
    IF x.t = "number" THEN Fin(x.n)
    ELSE CASE x.s = "1970" -> Fin(1970)
           [] x.s = "1970-01-02" -> NaN
           [] x.s = "abc" -> NaN

\* new Date(value).getTime(): a number is a time value in milliseconds, an
\* ISO-8601 date string is parsed as UTC, anything else is an Invalid Date.
DateGetTime(x) ==
    IF x.t = "number" THEN Fin(x.n)
    ELSE CASE x.s = "1970" -> Fin(0)
           [] x.s = "1970-01-02" -> Fin(86400000)
           [] x.s = "abc" -> NaN

\* question.value == clause.value (operands of different types are compared
\* as numbers), the comparison a slip of one character would give
LooseEquals(a, b) ==
    IF a.t = b.t THEN a.n = b.n /\ a.s = b.s
    ELSE LET x == IF a.t = "number" THEN Fin(a.n) ELSE ToNumber(a)
             y == IF b.t = "number" THEN Fin(b.n) ELSE ToNumber(b)
         IN ~x.nan /\ ~y.nan /\ x.v = y.v

\* question.value === clause.value
StrictEquals(a, b) == a.t = b.t /\ a.n = b.n /\ a.s = b.s

\* a > b and a < b on numbers: false whenever an operand is NaN
GreaterThan(a, b) == ~a.nan /\ ~b.nan /\ a.v > b.v
LessThan(a, b) == ~a.nan /\ ~b.nan /\ a.v < b.v

\* parseInt(req.query.x as string) on the query strings of the model
ParseInt(q) ==
    CASE q = Absent -> NaN
      [] q = "abc" -> NaN
      [] q = "0" -> Fin(0)
      [] q = "1" -> Fin(1)
      [] q = "-1" -> Fin(-1)

\* x || d for a number x: NaN and 0 are falsy
OrDefault(c, d) == IF c.nan \/ c.v = 0 THEN d ELSE c.v

\* !x for a header or route parameter
Falsy(x) == x = Absent \/ x = ""

-----------------------------------------------------------------------------
(* paginateData, src/app.ts 52-67 *)

\* A relative index of Array.prototype.slice, clamped to 0..len
RelativeIndex(i, len) ==
    IF i < 0 THEN (IF len + i < 0 THEN 0 ELSE len + i)
    ELSE (IF i > len THEN len ELSE i)

\* data.slice(startIndex, endIndex)
Slice(data, startIndex, endIndex) ==
    LET from == RelativeIndex(startIndex, Len(data))
        to == RelativeIndex(endIndex, Len(data))
    IN IF to <= from THEN <<>> ELSE SubSeq(data, from + 1, to)

\* Math.ceil(n / limit) for n >= 0 and limit # 0; a negative zero is
\* serialised as 0 by JSON.stringify.
MathCeilDiv(n, limit) ==
    IF limit > 0 THEN (n + limit - 1) \div limit
    ELSE 0 - (n \div (0 - limit))

paginateData(data, limit, offset) ==
    LET startIndex == offset
        endIndex == offset + limit
        responses == Slice(data, startIndex, endIndex)
    IN [responses |-> responses,
        totalResponses |-> Len(responses),
        pageCount |-> MathCeilDiv(Len(data), limit)]

-----------------------------------------------------------------------------
(* The filter callback, src/app.ts 126-164 *)

\* submission.questions.find((q) => q.id === clause.id): the index of the
\* first question with that id, 0 when there is none (undefined).
FindQuestion(questions, id) ==
    IF \E i \in 1..Len(questions) : questions[i].id = id
    THEN CHOOSE i \in 1..Len(questions) :
            /\ questions[i].id = id
            /\ \A k \in 1..(i - 1) : questions[k].id # id
    ELSE 0

\* The operands of greater_than / less_than: both are converted by the
\* QUESTION's type tag.
Coerce(type, value) ==
    IF type = "DatePicker" THEN DateGetTime(value) ELSE ToNumber(value)

\* The callback as its comment "Ignore if id does not match" reads: a clause
\* whose id matches no question is skipped instead of failing.
ClauseResultIgnoresMissing(submission, clause) ==
    LET i == FindQuestion(submission.questions, clause.id)
    IN IF i = 0 THEN "true"
       ELSE LET question == submission.questions[i]
                filterValue == Coerce(question.type, question.value)
                filterClause == Coerce(question.type, clause.value)
            IN CASE clause.condition = "equals" ->
                      IF StrictEquals(question.value, clause.value)
                      THEN "true" ELSE "false"
                 [] clause.condition = "does_not_equal" ->
                      IF ~StrictEquals(question.value, clause.value)
                      THEN "true" ELSE "false"
                 [] clause.condition = "greater_than" ->
                      IF GreaterThan(filterValue, filterClause)
                      THEN "true" ELSE "false"
                 [] clause.condition = "less_than" ->
                      IF LessThan(filterValue, filterClause)
                      THEN "true" ELSE "false"
                 [] OTHER -> "false"

\* What the callback of filterClauses.every returns for one clause:
\* "true", "false", or "res" when it answers 400 and returns the response
\* object (which `every` reads as truthy).
ClauseResult(submission, clause) ==
    LET i == FindQuestion(submission.questions, clause.id)
    IN IF i = 0 THEN "false"
       ELSE LET question == submission.questions[i]
                filterValue == Coerce(question.type, question.value)
                filterClause == Coerce(question.type, clause.value)
            IN IF TypeOf(filterValue) # TypeOf(filterClause) THEN "res"
               ELSE CASE clause.condition = "equals" ->
                           IF StrictEquals(question.value, clause.value)
                           THEN "true" ELSE "false"
                      [] clause.condition = "does_not_equal" ->
                           IF ~StrictEquals(question.value, clause.value)
                           THEN "true" ELSE "false"
                      [] clause.condition = "greater_than" ->
                           IF GreaterThan(filterValue, filterClause)
                           THEN "true" ELSE "false"
                      [] clause.condition = "less_than" ->
                           IF LessThan(filterValue, filterClause)
                           THEN "true" ELSE "false"
                      [] OTHER -> "false"

ClausePasses(submission, clause) == ClauseResult(submission, clause) # "false"

\* filterClauses.every(...) stops at the first falsy result: clause j is
\* evaluated iff every clause before it passed.
Evaluated(submission, clauses, j) ==
    \A k \in 1..(j - 1) : ClausePasses(submission, clauses[k])

EveryClause(submission, clauses) ==
    \A j \in 1..Len(clauses) : ClausePasses(submission, clauses[j])

\* submissions.filter((submission) => filterClauses.every(...))
filteredSubmissions(submissions, clauses) ==
    SelectSeq(submissions, LAMBDA submission : EveryClause(submission, clauses))

\* The evaluations <<submission index, clause index>> that take the
\* type-check branch of lines 144-149 and call res.status(400).json(...)
TypeCheckHits(submissions, clauses) ==
    {p \in (1..Len(submissions)) \X (1..Len(clauses)) :
        /\ Evaluated(submissions[p[1]], clauses, p[2])
        /\ ClauseResult(submissions[p[1]], clauses[p[2]]) = "res"}

FirstHit(hits) ==
    CHOOSE p \in hits : \A q \in hits :
        p[1] < q[1] \/ (p[1] = q[1] /\ p[2] <= q[2])

-----------------------------------------------------------------------------
(* Inputs: requests and upstream replies *)

SeqsUpTo(S, n) == UNION {[1..k -> S] : k \in 0..n}

Conditions == {"equals", "does_not_equal", "greater_than", "less_than", "contains"}

Clause(id, condition, value) == [id |-> id, condition |-> condition, value |-> value]

\* The filter clauses a client may send ("contains" is no condition of
\* FilterClauseType)
Clauses ==
    { Clause("q1", "equals", Str("1970")),
      Clause("q1", "does_not_equal", Str("1970")),
      Clause("q1", "greater_than", Num(5)),
      Clause("q1", "contains", Num(1970)),
      Clause("q2", "less_than", Str("1970-01-02")),
      Clause("q2", "does_not_equal", Str("abc")) }

Question(id, type, value) == [id |-> id, type |-> type, value |-> value]

\* The submissions the upstream may hold
Submissions ==
    { [submissionId |-> "s1",
       questions |-> << Question("q1", "NumberInput", Num(1970)),
                        Question("q2", "DatePicker", Str("1970-01-02")) >>],
      [submissionId |-> "s2",
       questions |-> << Question("q1", "ShortAnswer", Str("1970")) >>],
      [submissionId |-> "s3",
       questions |-> << Question("q1", "ShortAnswer", Str("abc")),
                        Question("q2", "DatePicker", Str("abc")),
                        Question("q1", "NumberInput", Num(1970)) >>],
      [submissionId |-> "s4",
       questions |-> << Question("q2", "DatePicker", Num(5)),
                        Question("q1", "DatePicker", Num(5)) >>] }

Authorizations == {Absent, "Bearer key"}

FormIds == {"form1"}

\* express.json() leaves {} for a request without a JSON array body
Bodies ==
    {[isArray |-> FALSE, clauses |-> <<>>]}
    \cup {[isArray |-> TRUE, clauses |-> cs] : cs \in SeqsUpTo(Clauses, MaxClauses)}

\* <<req.query.limit, req.query.offset>>
Queries ==
    { <<Absent, Absent>>, <<"1", "1">>, <<"-1", "0">>, <<"abc", "-1">> }

Non200Statuses == {201, 204}
ErrorStatuses == {404, 500}
UpstreamMessages == {Absent, "Form not found"}

NoRequest ==
    [authorization |-> Absent, formId |-> Absent,
     body |-> [isArray |-> FALSE, clauses |-> <<>>],
     limit |-> Absent, offset |-> Absent]

NoUpstream == [kind |-> "none", status |-> 0, message |-> Absent, responses |-> <<>>]

-----------------------------------------------------------------------------
(* The Response object *)

ErrorBody(message) == [json |-> TRUE, error |-> message]
PageBody(page) ==
    [json |-> TRUE, responses |-> page.responses,
     totalResponses |-> page.totalResponses, pageCount |-> page.pageCount]
HtmlBody == [json |-> FALSE]

NewResponse == [statusCode |-> 200, headersSent |-> FALSE, wire |-> <<>>, jsonCalls |-> 0]

\* res.status(code)
Status(r, code) == [r EXCEPT !.statusCode = code]

\* res.json(body): sends the response with the current status code; once
\* the headers are sent it throws ERR_HTTP_HEADERS_SENT and sends nothing.
Json(r, body) ==
    IF r.headersSent
    THEN [r EXCEPT !.jsonCalls = @ + 1]
    ELSE [r EXCEPT !.jsonCalls = @ + 1,
                   !.headersSent = TRUE,
                   !.wire = Append(@, [status |-> r.statusCode, body |-> body])]

JsonThrows(r) == r.headersSent

-----------------------------------------------------------------------------
(* The handler, src/app.ts 69-185 *)

\* const limit = parseInt(req.query.limit as string) || 150
Limit(r) == OrDefault(ParseInt(r.limit), DefaultLimit)
\* const offset = parseInt(req.query.offset as string) || 0
Offset(r) == OrDefault(ParseInt(r.offset), DefaultOffset)

\* The checks without the one for an empty array
ValidateWithoutEmptyCheck(r) ==
    IF Falsy(r.authorization) THEN "throw403"
    ELSE IF Falsy(r.formId) THEN "throw400"
    ELSE IF ~r.body.isArray THEN "notArray"
    ELSE "fetch"

\* The checks of lines 76-100, in their order; "fetch" when all pass.
\* (An array is truthy, so !req.body of line 98 adds nothing once
\* Array.isArray has passed.)
Validate(r) ==
    IF Falsy(r.authorization) THEN "throw403"
    ELSE IF Falsy(r.formId) THEN "throw400"
    ELSE IF ~r.body.isArray THEN "notArray"
    ELSE IF Len(r.body.clauses) = 0 THEN "empty"
    ELSE "fetch"

\* The message of the AxiosError axios.get rejects with
AxiosMessage(status) ==
    CASE status = 0 -> "Network Error"
      [] status = 404 -> "Request failed with status code 404"
      [] status = 500 -> "Request failed with status code 500"

InvalidFilterMessage(id) ==
    CASE id = "q1" -> "Invalid filter type for q1"
      [] id = "q2" -> "Invalid filter type for q2"

\* The catch block, lines 167-184: a first response by the kind of error,
\* then, unconditionally, res.status(500).json(...) once more.
CatchBlock(r, isAxios, status, message) ==
    LET first == IF isAxios
                 THEN Json(Status(r, IF status = 0 THEN 500 ELSE status),
                           ErrorBody(message))
                 ELSE Json(Status(r, 500), ErrorBody("Internal Server Error"))
    IN IF JsonThrows(r) THEN first
       ELSE Json(Status(first, 500), ErrorBody("Internal Server Error"))

\* An error leaves the catch block when one of its res.json calls throws.
CatchBlockThrows(r) == JsonThrows(r) \/ JsonThrows(Json(r, ErrorBody("")))

\* Lines 126-166 for an array of submissions: the filter, with the 400
\* responses its type check writes, then res.json(paginateData(...)).
\* threw: an error reached the catch block; assigned: filteredSubmissions
\* was assigned before that.
FilterAndRespond(r, submissions, clauses, limit, offset) ==
    LET hits == TypeCheckHits(submissions, clauses)
        kept == filteredSubmissions(submissions, clauses)
        page == PageBody(paginateData(kept, limit, offset))
    IN IF hits = {}
       THEN [res |-> Json(r, page), threw |-> JsonThrows(r), filtered |-> kept]
       ELSE LET hit == FirstHit(hits)
                q == submissions[hit[1]].questions[
                        FindQuestion(submissions[hit[1]].questions, clauses[hit[2]].id)]
                r1 == Json(Status(r, 400), ErrorBody(InvalidFilterMessage(q.id)))
            IN IF Cardinality(hits) > 1
               THEN [res |-> Json(Status(r1, 400), ErrorBody(InvalidFilterMessage(q.id))),
                     threw |-> JsonThrows(r1), filtered |-> <<>>]
               ELSE [res |-> Json(r1, page), threw |-> JsonThrows(r1), filtered |-> kept]

Init ==
    /\ pc = "idle"
    /\ req = NoRequest
    /\ upstream = NoUpstream
    /\ upstreamCalls = 0
    /\ filterRan = FALSE
    /\ filtered = <<>>
    /\ res = NewResponse
    /\ escaped = FALSE
    /\ unhandled = FALSE

\* A request arrives and the handler runs up to its await (lines 69-110).
Request(authorization, formId, body, query) ==
    LET r == [authorization |-> authorization, formId |-> formId, body |-> body,
              limit |-> query[1], offset |-> query[2]]
        v == Validate(r)
    IN /\ pc = "idle"
       /\ req' = r
       /\ CASE v = "throw403" ->
                 /\ res' = Status(res, 403)
                 /\ escaped' = TRUE
                 /\ pc' = "rejected"
                 /\ UNCHANGED upstreamCalls
            [] v = "throw400" ->
                 /\ res' = Status(res, 400)
                 /\ escaped' = TRUE
                 /\ pc' = "rejected"
                 /\ UNCHANGED upstreamCalls
            [] v = "notArray" ->
                 /\ res' = Json(Status(res, 400),
                                ErrorBody("Invalid filter clauses - must be an array"))
                 /\ pc' = "done"
                 /\ UNCHANGED <<escaped, upstreamCalls>>
            [] v = "empty" ->
                 /\ res' = Json(Status(res, 400),
                                ErrorBody("Please provide atleast 1 filter."))
                 /\ pc' = "done"
                 /\ UNCHANGED <<escaped, upstreamCalls>>
            [] v = "fetch" ->
                 /\ upstreamCalls' = upstreamCalls + 1
                 /\ pc' = "awaiting"
                 /\ UNCHANGED <<res, escaped>>
       /\ UNCHANGED <<upstream, filterRan, filtered, unhandled>>

\* axios.get resolves with status 200 and an array of submissions; the
\* handler filters, paginates and answers (lines 112-166, 167-184).
UpstreamOk(submissions) ==
    LET out == FilterAndRespond(res, submissions, req.body.clauses, Limit(req), Offset(req))
    IN /\ pc = "awaiting"
       /\ upstream' = [kind |-> "ok", status |-> 200, message |-> Absent,
                       responses |-> submissions]
       /\ filterRan' = TRUE
       /\ filtered' = out.filtered
       /\ IF out.threw
          THEN /\ res' = CatchBlock(out.res, FALSE, 0, Absent)
               /\ escaped' = CatchBlockThrows(out.res)
          ELSE /\ res' = out.res
               /\ escaped' = FALSE
       /\ pc' = IF escaped' THEN "rejected" ELSE "done"
       /\ UNCHANGED <<req, upstreamCalls, unhandled>>

\* axios.get resolves with status 200 and a body whose `responses` is not
\* an array (lines 119-124).
UpstreamNotArray ==
    /\ pc = "awaiting"
    /\ upstream' = [kind |-> "notArray", status |-> 200, message |-> Absent,
                    responses |-> <<>>]
    /\ res' = Json(Status(res, 400), ErrorBody("Filters must be nested in an array."))
    /\ pc' = "done"
    /\ UNCHANGED <<req, upstreamCalls, filterRan, filtered, escaped, unhandled>>

\* axios.get resolves with a 2xx status other than 200: line 112 throws a
\* plain Error, which the catch block answers (lines 112-117, 167-184).
UpstreamNon200(status, message) ==
    /\ pc = "awaiting"
    /\ upstream' = [kind |-> "non200", status |-> status, message |-> message,
                    responses |-> <<>>]
    /\ res' = CatchBlock(res, FALSE, 0, Absent)
    /\ escaped' = CatchBlockThrows(res)
    /\ pc' = IF escaped' THEN "rejected" ELSE "done"
    /\ UNCHANGED <<req, upstreamCalls, filterRan, filtered, unhandled>>

\* axios.get rejects with an AxiosError that carries the upstream's status.
UpstreamHttpError(status, message) ==
    /\ pc = "awaiting"
    /\ upstream' = [kind |-> "httpError", status |-> status, message |-> message,
                    responses |-> <<>>]
    /\ res' = CatchBlock(res, TRUE, status, AxiosMessage(status))
    /\ escaped' = CatchBlockThrows(res)
    /\ pc' = IF escaped' THEN "rejected" ELSE "done"
    /\ UNCHANGED <<req, upstreamCalls, filterRan, filtered, unhandled>>

\* axios.get rejects with an AxiosError without a response.
UpstreamNetworkError ==
    /\ pc = "awaiting"
    /\ upstream' = [kind |-> "network", status |-> 0, message |-> Absent,
                    responses |-> <<>>]
    /\ res' = CatchBlock(res, TRUE, 0, AxiosMessage(0))
    /\ escaped' = CatchBlockThrows(res)
    /\ pc' = IF escaped' THEN "rejected" ELSE "done"
    /\ UNCHANGED <<req, upstreamCalls, filterRan, filtered, unhandled>>

\* The promise of the async handler rejected.  A router that does not
\* observe the promise leaves the rejection unhandled and writes nothing.
RejectionUnhandled ==
    /\ pc = "rejected"
    /\ unhandled' = TRUE
    /\ pc' = "done"
    /\ UNCHANGED <<req, upstream, upstreamCalls, filterRan, filtered, res, escaped>>

\* A router that observes the promise hands the error to the default error
\* handler: an HTML error page under res.statusCode (500 unless it is an
\* error status), or nothing when the headers were already sent.
RejectionDefaultHandler ==
    /\ pc = "rejected"
    /\ res' = IF res.headersSent THEN res
              ELSE [res EXCEPT
                      !.headersSent = TRUE,
                      !.wire = Append(@, [status |-> IF res.statusCode >= 400
                                                     THEN res.statusCode ELSE 500,
                                          body |-> HtmlBody])]
    /\ pc' = "done"
    /\ UNCHANGED <<req, upstream, upstreamCalls, filterRan, filtered, escaped, unhandled>>

Next ==
    \/ \E a \in Authorizations, f \in FormIds, b \in Bodies, q \in Queries :
          Request(a, f, b, q)
    \/ \E ss \in SeqsUpTo(Submissions, MaxSubs) : UpstreamOk(ss)
    \/ UpstreamNotArray
    \/ \E s \in Non200Statuses, m \in UpstreamMessages : UpstreamNon200(s, m)
    \/ \E s \in ErrorStatuses, m \in UpstreamMessages : UpstreamHttpError(s, m)
    \/ UpstreamNetworkError
    \/ RejectionUnhandled
    \/ RejectionDefaultHandler

Spec == Init /\ [][Next]_vars

-----------------------------------------------------------------------------
(* Properties *)

Finished == pc \in {"rejected", "done"}

HasCredential == ~Falsy(req.authorization)

IsErrorJson(body) == body.json /\ "error" \in DOMAIN body
IsPageJson(body) == body.json /\ "responses" \in DOMAIN body

\* The handler answered 200 with a page
Answered200 ==
    /\ Len(res.wire) = 1
    /\ res.wire[1].status = 200
    /\ IsPageJson(res.wire[1].body)

Range(seq) == {seq[i] : i \in 1..Len(seq)}

\* C1: a request without an Authorization header is answered 403 with a
\* JSON body {error: <string>}, before any upstream call and any filtering.
C1_MissingCredentialAnswered403 ==
    (pc = "done" /\ ~HasCredential) =>
        /\ Len(res.wire) = 1
        /\ res.wire[1].status = 403
        /\ IsErrorJson(res.wire[1].body)
        /\ upstreamCalls = 0
        /\ ~filterRan

\* C2: with a credential and a form id, a body that is not an array is
\* answered 400 "Invalid filter clauses - must be an array", an empty array
\* 400 "Please provide atleast 1 filter.", and neither request ever reaches
\* the upstream; the credential check comes before both.
C2_BodyValidation ==
    pc # "idle" =>
        /\ (HasCredential /\ ~Falsy(req.formId) /\ ~req.body.isArray) =>
              /\ pc = "done"
              /\ res.wire = << [status |-> 400,
                                body |-> [json |-> TRUE,
                                          error |-> "Invalid filter clauses - must be an array"]] >>
              /\ upstreamCalls = 0
              /\ upstream.kind = "none"
        /\ (HasCredential /\ ~Falsy(req.formId) /\ req.body.isArray
                /\ Len(req.body.clauses) = 0) =>
              /\ pc = "done"
              /\ res.wire = << [status |-> 400,
                                body |-> [json |-> TRUE,
                                          error |-> "Please provide atleast 1 filter."]] >>
              /\ upstreamCalls = 0
              /\ upstream.kind = "none"
        /\ ~HasCredential =>
              /\ \A i \in 1..Len(res.wire) : res.wire[i].status # 400
              /\ upstreamCalls = 0

C2_Witness ==
    /\ pc = "done"
    /\ HasCredential
    /\ req.body.isArray
    /\ Len(req.body.clauses) = 0
    /\ Len(res.wire) = 1
    /\ res.wire[1].status = 400
    /\ upstreamCalls = 0

\* The clause holds for the submission, as the specification words it: the
\* submission has a question with the clause's id and the clause's
\* condition holds for (the first such) question.
C3_ClauseHolds(S, c) ==
    \E i \in 1..Len(S.questions) :
        /\ S.questions[i].id = c.id
        /\ \A k \in 1..(i - 1) : S.questions[k].id # c.id
        /\ LET q == S.questions[i]
               same == q.value.t = c.value.t /\ q.value.n = c.value.n
                          /\ q.value.s = c.value.s
               a == Coerce(q.type, q.value)
               b == Coerce(q.type, c.value)
           IN \/ c.condition = "equals" /\ same
              \/ c.condition = "does_not_equal" /\ ~same
              \/ c.condition = "greater_than" /\ ~a.nan /\ ~b.nan /\ a.v > b.v
              \/ c.condition = "less_than" /\ ~a.nan /\ ~b.nan /\ a.v < b.v

\* C3: the filtered set is, in order, the submissions for which every clause
\* holds; a clause whose id matches no question, and a clause with an
\* unrecognized condition, exclude the submission.
C3_FilterAndSemantics ==
    (Finished /\ upstream.kind = "ok") =>
        LET cs == req.body.clauses
        IN /\ filtered = SelectSeq(upstream.responses,
                            LAMBDA S : \A j \in 1..Len(cs) : C3_ClauseHolds(S, cs[j]))
           /\ \A S \in Range(filtered) : \A j \in 1..Len(cs) :
                 /\ \E i \in 1..Len(S.questions) : S.questions[i].id = cs[j].id
                 /\ cs[j].condition \in
                       {"equals", "does_not_equal", "greater_than", "less_than"}

C3_Witness ==
    /\ pc = "done"
    /\ upstream.kind = "ok"
    /\ Len(req.body.clauses) >= 2
    /\ Len(filtered) >= 1
    /\ \E S \in Range(upstream.responses) :
          /\ S \notin Range(filtered)
          /\ \E j \in 1..Len(req.body.clauses) :
                /\ req.body.clauses[j].condition = "does_not_equal"
                /\ \A i \in 1..Len(S.questions) :
                      S.questions[i].id # req.body.clauses[j].id
                /\ \A k \in 1..Len(req.body.clauses) :
                      k # j => C3_ClauseHolds(S, req.body.clauses[k])

\* The elements of data at the (0-based) positions [O, O+L), in order
C4_Positions(data, O, L) ==
    LET lo == IF O < 0 THEN 0 ELSE O
        hi == IF O + L > Len(data) THEN Len(data) ELSE O + L
    IN IF hi <= lo THEN <<>> ELSE SubSeq(data, lo + 1, hi)

\* C4: the page is the elements at positions [O, O+L) of the filtered set,
\* empty when O >= N; totalResponses is the size of the page and
\* pageCount = ceil(N / L), for the limit L and offset O the handler uses.
C4_PaginationCorrect ==
    (pc = "done" /\ upstream.kind = "ok" /\ Answered200) =>
        LET body == res.wire[1].body
            N == Len(filtered)
            L == Limit(req)
            O == Offset(req)
        IN /\ body.responses = C4_Positions(filtered, O, L)
           /\ (O >= N => body.responses = <<>>)
           /\ body.totalResponses = Len(body.responses)
           /\ IF L > 0
              THEN (body.pageCount - 1) * L < N /\ N <= body.pageCount * L
              ELSE (body.pageCount - 1) * L > N /\ N >= body.pageCount * L

\* C5: an upstream reply the handler treats as failed with status s is
\* answered with status s and a JSON error body; a failure without a
\* status is answered 500.
C5_UpstreamStatusForwarded ==
    Finished =>
        /\ upstream.kind \in {"non200", "httpError"} =>
              /\ Len(res.wire) = 1
              /\ res.wire[1].status = upstream.status
              /\ IsErrorJson(res.wire[1].body)
        /\ upstream.kind = "network" =>
              /\ Len(res.wire) = 1
              /\ res.wire[1].status = 500
              /\ IsErrorJson(res.wire[1].body)

\* Some evaluated clause meets a question whose coerced value and the coerced
\* clause value disagree: one is a number, the other NaN.
C6_CoercionDisagrees ==
    \E i \in 1..Len(upstream.responses), j \in 1..Len(req.body.clauses) :
        LET S == upstream.responses[i]
            c == req.body.clauses[j]
            k == FindQuestion(S.questions, c.id)
        IN /\ Evaluated(S, req.body.clauses, j)
           /\ k # 0
           /\ Coerce(S.questions[k].type, S.questions[k].value).nan
                 # Coerce(S.questions[k].type, c.value).nan

\* C6: a coercion mismatch ends the request with 400 "Invalid filter type
\* for <question id>", not with a 200 page.
C6_CoercionMismatchAnswered400 ==
    (Finished /\ upstream.kind = "ok" /\ C6_CoercionDisagrees) =>
        /\ Len(res.wire) = 1
        /\ res.wire[1].status = 400
        /\ IsErrorJson(res.wire[1].body)

\* C7: for the question a clause finds, equals passes iff stored value and
\* clause value have the same type and the same value, does_not_equal iff
\* they do not, whatever the type tag and the coerced values.
C7_RawValueIdentity ==
    (Finished /\ upstream.kind = "ok") =>
        \A S \in Range(upstream.responses) : \A j \in 1..Len(req.body.clauses) :
            LET c == req.body.clauses[j]
                k == FindQuestion(S.questions, c.id)
                v == S.questions[k].value
                same == /\ v.t = c.value.t
                        /\ IF v.t = "number" THEN v.n = c.value.n ELSE v.s = c.value.s
                passes == (c.condition = "equals") = same
            IN (k # 0 /\ c.condition \in {"equals", "does_not_equal"}) =>
                  /\ S \in Range(filtered) => passes
                  /\ Len(req.body.clauses) = 1 => (S \in Range(filtered) <=> passes)

C7_Witness ==
    /\ pc = "done"
    /\ upstream.kind = "ok"
    /\ Len(req.body.clauses) = 1
    /\ req.body.clauses[1].condition = "does_not_equal"
    /\ req.body.clauses[1].value = Str("1970")
    /\ \E S \in Range(filtered) :
          LET k == FindQuestion(S.questions, req.body.clauses[1].id)
          IN k # 0 /\ S.questions[k].value = Num(1970)

\* C8: an upstream reply whose `responses` is not an array is answered as
\* an upstream failure (the upstream's status or 500), never 400.
C8_NotArrayIsUpstreamFailure ==
    (Finished /\ upstream.kind = "notArray") =>
        /\ Len(res.wire) = 1
        /\ IsErrorJson(res.wire[1].body)
        /\ res.wire[1].status # 400
        /\ ~filterRan

\* C9: once the handler is through, it has written exactly one response, a
\* JSON body, and no error has left it.
C9_ExactlyOneResponse ==
    pc = "done" =>
        /\ res.jsonCalls = 1
        /\ Len(res.wire) = 1
        /\ res.wire[1].body.json
        /\ ~escaped

\* C10: limit is 150 and offset 0 when the parameter is absent or invalid,
\* the supplied number otherwise; every 200 response has
\* 0 <= totalResponses <= limit and pageCount >= 0.
C10_LimitOffsetBounds ==
    pc # "idle" =>
        /\ req.limit \in {Absent, "abc"} => Limit(req) = 150
        /\ req.offset \in {Absent, "abc"} => Offset(req) = 0
        /\ Answered200 =>
              /\ 0 <= res.wire[1].body.totalResponses
              /\ res.wire[1].body.totalResponses <= Limit(req)
              /\ res.wire[1].body.pageCount >= 0

=============================================================================
